---- MODULE Spec2Model ----
(***************************************************************************)
(* Model of the SQLite connector (parsons/databases/sqlite/sqlite.py) and  *)
(* its create-table statement builder (sqlite_create_table.py).            *)
(*                                                                         *)
(* The database file is a catalogue of tables in creation order.  A call   *)
(* of query, query_with_connection, copy or table_exists is one action;    *)
(* the trace of what the call did to connections, cursors and the          *)
(* database is kept in last until the caller takes the outcome.          *)
(***************************************************************************)
EXTENDS Integers, Sequences, FiniteSets, TLC

VARIABLES file, pc, last

vars == <<file, pc, last>>

\* ------------------------------------------------------------------------
\* Bounds of the model
\* ------------------------------------------------------------------------
\* largest number of rows of a table handed to copy
MaxRows == 3
\* copy is not started when the target could grow beyond this many rows
MaxTableRows == 3

\* ------------------------------------------------------------------------
\* Program constants
\* ------------------------------------------------------------------------
QUERY_BATCH_SIZE == 100000

\* ------------------------------------------------------------------------
\* Python values held by a parsons Table and values stored by SQLite.
\* k is the type of the value, s its text (what str() prints).
\* ------------------------------------------------------------------------
IntV(s) == [k |-> "int", s |-> s]
StrV(s) == [k |-> "str", s |-> s]
NoneV == [k |-> "null", s |-> "None"]

Digits == {"1", "2"}

\* table names: "t" and "T" name the same SQLite table, "_" another one
\* (and is a one-character wildcard of LIKE)
Names == {"t", "T", "_"}

\* the names copy is called with
CopyNames == {"t", "T"}

Lower(n) == IF n = "T" THEN "t" ELSE n

\* ------------------------------------------------------------------------
\* SQL text.  A string of SQL is a sequence of pieces: statements, the
\* separator ";" and blanks.  Every piece has the same fields.
\* ------------------------------------------------------------------------
Stmt(op, table, where, columns, values) ==
    [op |-> op, table |-> table, where |-> where, columns |-> columns, values |-> values]

Semi == Stmt(";", "", "", <<>>, <<>>)
Blank == Stmt(" ", "", "", <<>>, <<>>)
NoStmt == Stmt("", "", "", <<>>, <<>>)
SelectAll(n) == Stmt("select", n, "all", <<>>, <<>>)
SelectNone(n) == Stmt("select", n, "none", <<>>, <<>>)
CatalogSelect(n) == Stmt("catalog", n, "", <<>>, <<>>)
CreateTable(n, colmap) == Stmt("create", n, "", colmap, <<>>)
DropTable(n) == Stmt("drop", n, "", <<>>, <<>>)
InsertInto(n, cols, vals) == Stmt("insert", n, "", cols, vals)

\* ------------------------------------------------------------------------
\* The SQLite engine, as the connector uses it
\* ------------------------------------------------------------------------
\* index of the table named n (names compare case-insensitively), 0 if none
Find(db, n) ==
    IF \E i \in 1..Len(db) : Lower(db[i].name) = Lower(n)
    THEN CHOOSE i \in 1..Len(db) : Lower(db[i].name) = Lower(n)
    ELSE 0

\* name LIKE pattern, for one-character names: "_" matches any character,
\* other characters match themselves case-insensitively
Like(name, pattern) == pattern = "_" \/ Lower(name) = Lower(pattern)

RECURSIVE Keep(_, _)
Keep(s, ok) ==
    IF s = <<>> THEN <<>>
    ELSE IF ok[1] THEN <<Head(s)>> \o Keep(Tail(s), Tail(ok))
    ELSE Keep(Tail(s), Tail(ok))

\* a literal of the VALUES list: quoted text, or a bare word
\* a quoted literal is a string, a bare number an integer, any other bare
\* word is read as a column name, which VALUES does not have
LiteralOk(l) == l.quoted \/ l.s \in Digits
LiteralValue(l) == IF l.quoted THEN StrV(l.s) ELSE IntV(l.s)

\* column affinity: the declared type decides how a value is stored
Affinity(type, v) ==
    IF type = "text"
    THEN IF v.k = "int" THEN StrV(v.s) ELSE v
    ELSE IF v.k = "str" /\ v.s \in Digits THEN IntV(v.s) ELSE v

ColumnNames(t) == [i \in 1..Len(t.columns) |-> t.columns[i].name]

ColumnIndex(cols, c) ==
    IF \E i \in 1..Len(cols) : cols[i] = c
    THEN CHOOSE i \in 1..Len(cols) : cols[i] = c
    ELSE 0

\* the row the table t stores for the literals lits given for columns cols
StoredRow(t, cols, lits) ==
    [j \in 1..Len(t.columns) |->
        IF ColumnIndex(cols, t.columns[j].name) = 0 THEN NoneV
        ELSE Affinity(t.columns[j].type,
                      LiteralValue(lits[ColumnIndex(cols, t.columns[j].name)]))]

\* does statement s fail on database db
ExecFails(db, s) ==
    CASE s.op = "select" -> Find(db, s.table) = 0
      [] s.op = "create" -> Find(db, s.table) # 0
      [] s.op = "drop" -> Find(db, s.table) = 0
      [] s.op = "insert" ->
            \/ Find(db, s.table) = 0
            \/ \E i \in 1..Len(s.columns) :
                 ColumnIndex(ColumnNames(db[Find(db, s.table)]), s.columns[i]) = 0
            \/ \E r \in 1..Len(s.values) :
                 \/ Len(s.values[r]) # Len(s.columns)
                 \/ \E i \in 1..Len(s.values[r]) : ~LiteralOk(s.values[r][i])
      [] OTHER -> FALSE

\* the database after statement s, when it does not fail
ExecDb(db, s) ==
    CASE s.op = "create" ->
            Append(db, [name |-> s.table, columns |-> s.columns, rows |-> <<>>])
      [] s.op = "drop" ->
            Keep(db, [i \in 1..Len(db) |-> i # Find(db, s.table)])
      [] s.op = "insert" ->
            [db EXCEPT ![Find(db, s.table)].rows =
                @ \o [r \in 1..Len(s.values) |->
                        StoredRow(db[Find(db, s.table)], s.columns, s.values[r])]]
      [] OTHER -> db

\* cursor.description after statement s: the result columns, <<>> for None
ExecDescription(db, s) ==
    CASE s.op = "select" -> ColumnNames(db[Find(db, s.table)])
      [] s.op = "catalog" -> <<"name">>
      [] OTHER -> <<>>

\* the rows the cursor holds after statement s
ExecRows(db, s) ==
    CASE s.op = "select" ->
            IF s.where = "all" THEN db[Find(db, s.table)].rows ELSE <<>>
      [] s.op = "catalog" ->
            [i \in 1..Len(Keep(db, [j \in 1..Len(db) |-> Like(db[j].name, s.table)])) |->
                <<StrV(Keep(db, [j \in 1..Len(db) |-> Like(db[j].name, s.table)])[i].name)>>]
      [] OTHER -> <<>>

\* ------------------------------------------------------------------------
\* Connections and cursors.  A connection st is the committed file, the
\* connection's own view of it (work), whether a transaction is open, the
\* trace of events so far and the spill files written so far.
\* ------------------------------------------------------------------------
\* an event of the trace: what was done (e) on connection c, with the kind
\* and the VALUES rows of the statement for execute events
Ev(e, c, s) == [e |-> e, c |-> c, op |-> s.op, values |-> s.values]

Log(st, e, c, s) == [st EXCEPT !.log = Append(@, Ev(e, c, s))]

\* sqlite3.connect(self.file)
Connect(f, log, spills, c) ==
    [file |-> f, work |-> f, intxn |-> FALSE,
     log |-> Append(log, Ev("connect", c, NoStmt)), spills |-> spills]

\* cursor.execute(s) of a statement that does not fail: INSERT opens a
\* transaction, CREATE and DROP outside a transaction are written through
Executing(st, w, t) == [st EXCEPT !.work = w, !.intxn = t, !.file = IF t THEN @ ELSE w]

Execute(st, c, s) ==
    Executing(Log(st, "execute", c, s), ExecDb(st.work, s), st.intxn \/ s.op = "insert")

\* connection.commit()
Commit(st, c) ==
    [Log(st, "commit", c, NoStmt) EXCEPT !.file = st.work, !.intxn = FALSE]

\* connection.rollback()
Rollback(st, c) ==
    [Log(st, "rollback", c, NoStmt) EXCEPT !.work = st.file, !.intxn = FALSE]

\* the statement of query_with_connection that follows cursor.execute(s)
CommitNever(st, c, commit) == st

CommitAfterExecute(st, c, commit) == Commit(st, c)

\* exit of the cursor scope: finally cursor.close()
CursorExitOnSuccessOnly(st, c, exc) ==
    IF exc = "" THEN Log(st, "close_cursor", c, NoStmt) ELSE st

CursorExit(st, c, exc) == Log(st, "close_cursor", c, NoStmt)

\* exit of the connection scope: a sqlite3.Error is rolled back and the
\* except clause ends without raising again; finally connection.close()
Close(st, c) == [Log(st, "close", c, NoStmt) EXCEPT !.work = st.file, !.intxn = FALSE]

ConnectionExit(st, c, exc) ==
    Close(IF exc = "sqlite3.Error" THEN Rollback(st, c) ELSE st, c)

\* the exception that leaves the connection scope
ConnectionExitExc(exc) == IF exc = "sqlite3.Error" THEN "" ELSE exc

\* ------------------------------------------------------------------------
\* sql.strip().split(";")
\* ------------------------------------------------------------------------
RECURSIVE LStrip(_)
LStrip(sql) ==
    IF sql # <<>> /\ Head(sql).op = " " THEN LStrip(Tail(sql)) ELSE sql

RECURSIVE RStrip(_)
RStrip(sql) ==
    IF sql # <<>> /\ sql[Len(sql)].op = " "
    THEN RStrip(SubSeq(sql, 1, Len(sql) - 1)) ELSE sql

Strip(sql) == RStrip(LStrip(sql))

\* the fragments between the separators, in order
FirstSemi(sql) ==
    CHOOSE j \in 1..Len(sql) : sql[j].op = ";" /\ \A k \in 1..(j - 1) : sql[k].op # ";"

RECURSIVE Split(_)
Split(sql) ==
    IF \E i \in 1..Len(sql) : sql[i].op = ";"
    THEN <<SubSeq(sql, 1, FirstSemi(sql) - 1)>>
            \o Split(SubSeq(sql, FirstSemi(sql) + 1, Len(sql)))
    ELSE <<sql>>

\* what SQLite runs for a fragment: its statement, nothing for blanks only
FragmentStmt(f) ==
    IF \E i \in 1..Len(f) : f[i].op # " "
    THEN f[CHOOSE i \in 1..Len(f) : f[i].op # " "]
    ELSE Blank

\* ------------------------------------------------------------------------
\* parsons Table, as the connector uses it
\* ------------------------------------------------------------------------
Tbl(columns, rows) == [columns |-> columns, rows |-> rows]

num_rows(tbl) == Len(tbl.rows)

\* Table.first: the first value of the first row, None for no rows
first(tbl) == IF tbl.rows = <<>> THEN NoneV ELSE tbl.rows[1][1]

\* Table.chunk(n): tables of n rows each, the last one with the rest
RECURSIVE chunk(_, _)
chunk(tbl, n) ==
    IF Len(tbl.rows) = 0 THEN <<>>
    ELSE IF Len(tbl.rows) <= n THEN <<tbl>>
    ELSE <<Tbl(tbl.columns, SubSeq(tbl.rows, 1, n))>>
            \o chunk(Tbl(tbl.columns, SubSeq(tbl.rows, n + 1, Len(tbl.rows))), n)

\* the outcome of a call: the exception raised ("" for none) and the value
\* returned (none is Python's None, otherwise a table)
NoneRet == [none |-> TRUE, columns |-> <<>>, rows |-> <<>>]
TableRet(tbl) == [none |-> FALSE, columns |-> tbl.columns, rows |-> tbl.rows]

\* ------------------------------------------------------------------------
\* SQLite.query_with_connection
\* ------------------------------------------------------------------------
\* the loop over the fragments: stops at the first statement that fails
RECURSIVE RunStatements(_, _, _, _, _)
RunStatement(s, frags, st, c, commit, cur) ==
    IF ExecFails(st.work, s)
    THEN [st |-> Log(st, "execute_failed", c, s), exc |-> "sqlite3.Error", cur |-> cur]
    ELSE RunStatements(frags, CommitAfterExecute(Execute(st, c, s), c, commit), c, commit,
                       [description |-> ExecDescription(st.work, s),
                        rows |-> ExecRows(st.work, s)])

RunStatements(frags, st, c, commit, cur) ==
    IF frags = <<>> THEN [st |-> st, exc |-> "", cur |-> cur]
    ELSE IF Len(Head(frags)) = 0
    THEN RunStatements(Tail(frags), st, c, commit, cur)
    ELSE RunStatement(FragmentStmt(Head(frags)), Tail(frags), st, c, commit, cur)

\* cursor.fetchmany(QUERY_BATCH_SIZE) until a batch is empty
RECURSIVE FetchBatches(_)
FetchBatches(rows) ==
    IF Len(rows) = 0 THEN <<>>
    ELSE IF Len(rows) <= QUERY_BATCH_SIZE THEN rows
    ELSE SubSeq(rows, 1, QUERY_BATCH_SIZE)
            \o FetchBatches(SubSeq(rows, QUERY_BATCH_SIZE + 1, Len(rows)))

\* the pickled spill file: the header, then the rows
SpillFile(cur) == [header |-> cur.description, rows |-> FetchBatches(cur.rows)]

\* Table(petl.frompickle(temp_file))
FromPickle(spill) == Tbl(spill.header, spill.rows)

NoCursor == [description |-> <<>>, rows |-> <<>>]

\* the spill file is written and the table loaded from it
Spilled(st, spill) ==
    [st |-> [st EXCEPT !.spills = Append(@, spill)], exc |-> "",
     ret |-> TableRet(FromPickle(spill))]

\* what follows the loop: None without cursor.description, else the table
Fetched(run) ==
    IF run.exc # "" THEN [st |-> run.st, exc |-> run.exc, ret |-> NoneRet]
    ELSE IF run.cur.description = <<>> THEN [st |-> run.st, exc |-> "", ret |-> NoneRet]
    ELSE Spilled(run.st, SpillFile(run.cur))

CursorClosed(r, c) == [r EXCEPT !.st = CursorExit(r.st, c, r.exc)]

query_with_connection(sql, st, c, commit) ==
    CursorClosed(
        Fetched(RunStatements(Split(Strip(sql)), Log(st, "cursor", c, NoStmt),
                              c, commit, NoCursor)),
        c)

\* ------------------------------------------------------------------------
\* SQLite.query: one connection around query_with_connection.  A call
\* leaves the file, the trace and the spill files behind (w) and an outcome:
\* the exception raised, the value returned, and for table_exists the
\* boolean returned.
\* ------------------------------------------------------------------------
World(st) == [file |-> st.file, log |-> st.log, spills |-> st.spills]

\* the end of a connection scope whose body ended as r
ScopeExit(r, c, ret) ==
    [w |-> World(ConnectionExit(r.st, c, r.exc)),
     exc |-> ConnectionExitExc(r.exc),
     ret |-> IF r.exc = "" THEN ret ELSE NoneRet,
     found |-> FALSE]

QueryExit(r, c) == ScopeExit(r, c, r.ret)

query(sql, w, c) ==
    QueryExit(query_with_connection(sql, Connect(w.file, w.log, w.spills, c), c, TRUE), c)

\* ------------------------------------------------------------------------
\* SQLite.table_exists
\* ------------------------------------------------------------------------
FirstIs(q, table_name) ==
    IF q.ret.none
    THEN [w |-> q.w, exc |-> "AttributeError", ret |-> NoneRet, found |-> FALSE]
    ELSE [w |-> q.w, exc |-> "", ret |-> NoneRet,
          found |-> first(q.ret) = StrV(table_name)]

table_exists(table_name, w, c) ==
    FirstIs(query(<<CatalogSelect(table_name)>>, w, c), table_name)

\* ------------------------------------------------------------------------
\* SQLiteCreateTable (sqlite_create_table.py)
\* ------------------------------------------------------------------------
\* Table.column_data(col): the values of one column, in row order
column_data(tbl, i) == [r \in 1..Len(tbl.rows) |-> tbl.rows[r][i]]

\* detect_data_type of the shared base class: the type seen so far widens
\* from unknown ("None") to int to text; None values leave it as it is
detect_data_type(val, current_type) ==
    CASE val.k = "null" -> current_type
      [] val.k = "int" -> IF current_type = "text" THEN "text" ELSE "int"
      [] OTHER -> "text"

data_type(val, current_type) == detect_data_type(val, current_type)

RECURSIVE EvaluateFrom(_, _)
EvaluateFrom(column_rows, col_type) ==
    IF column_rows = <<>> THEN col_type
    ELSE EvaluateFrom(Tail(column_rows), data_type(Head(column_rows), col_type))

evaluate_column(column_rows) == EvaluateFrom(column_rows, "None")

evaluate_table(tbl) ==
    [i \in 1..Len(tbl.columns) |->
        [name |-> tbl.columns[i], type |-> evaluate_column(column_data(tbl, i))]]

\* format_columns of the shared base class: the column names of the model
\* are valid names, which it keeps
format_columns(columns) == columns

columns_convert(columns) == format_columns(columns)

\* the table with its header set to the converted names, and the statement
create_statement(tbl, table_name) ==
    LET renamed == Tbl(columns_convert(tbl.columns), tbl.rows)
    IN  [tbl |-> renamed,
         sql |-> <<CreateTable(table_name, evaluate_table(renamed)), Semi>>]

\* ------------------------------------------------------------------------
\* SQLite._insert_statement
\* ------------------------------------------------------------------------
\* str(value) inside f"({row[0]})": the bare text of the value
StrLiteral(v) == [quoted |-> FALSE, s |-> v.s]

\* repr(value) inside str(row): text in quotes for a str, bare otherwise
ReprLiteral(v) == [quoted |-> v.k = "str", s |-> v.s]

InsertValues(tbl) ==
    IF Len(tbl.columns) = 1
    THEN [r \in 1..Len(tbl.rows) |-> <<StrLiteral(tbl.rows[r][1])>>]
    ELSE [r \in 1..Len(tbl.rows) |->
            [i \in 1..Len(tbl.rows[r]) |-> ReprLiteral(tbl.rows[r][i])]]

insert_statement(tbl, table_name) ==
    <<InsertInto(table_name, tbl.columns, InsertValues(tbl)), Semi>>

\* ------------------------------------------------------------------------
\* SQLite._create_table_precheck
\* ------------------------------------------------------------------------
InvalidIfExists == "ValueError: Invalid value for if_exists argument"
AlreadyExists == "ValueError: Table already exists."

IfExistsWithTruncate(if_exists) == if_exists \in {"fail", "append", "drop", "truncate"}

IfExistsValid(if_exists) == if_exists \in {"fail", "append", "drop"}

\* ret is TRUE when the table is to be created (None counts as FALSE)
Dropped(d) == [st |-> d.st, exc |-> d.exc, ret |-> d.exc = ""]

\* the branches taken once table_exists has returned te
Prechecked(seen, te, table_name, if_exists) ==
    IF te.exc # "" THEN [st |-> seen, exc |-> te.exc, ret |-> FALSE]
    ELSE IF te.found
    THEN IF if_exists = "fail"
         THEN [st |-> seen, exc |-> AlreadyExists, ret |-> FALSE]
         ELSE IF if_exists = "drop"
         THEN Dropped(query_with_connection(<<DropTable(table_name)>>, seen, 1, TRUE))
         ELSE [st |-> seen, exc |-> "", ret |-> FALSE]
    ELSE [st |-> seen, exc |-> "", ret |-> TRUE]

\* the outer connection after the lookup made on a connection of its own
AfterLookup(st, te, table_name, if_exists) ==
    Prechecked([st EXCEPT !.log = te.w.log, !.spills = te.w.spills],
               te, table_name, if_exists)

create_table_precheck(st, table_name, if_exists) ==
    IF ~IfExistsValid(if_exists)
    THEN [st |-> st, exc |-> InvalidIfExists, ret |-> FALSE]
    ELSE AfterLookup(st, table_exists(table_name, World(st), 2), table_name, if_exists)

\* ------------------------------------------------------------------------
\* SQLite.copy
\* ------------------------------------------------------------------------
\* for t in tbl.chunk(chunk_size): stops at the first INSERT that fails
RECURSIVE InsertChunks(_, _, _)
Inserted(r, chunks, table_name) ==
    IF r.exc # "" THEN [st |-> r.st, exc |-> r.exc]
    ELSE InsertChunks(chunks, table_name, r.st)

InsertChunks(chunks, table_name, st) ==
    IF chunks = <<>> THEN [st |-> st, exc |-> ""]
    ELSE Inserted(query_with_connection(insert_statement(Head(chunks), table_name),
                                        st, 1, TRUE),
                  Tail(chunks), table_name)

\* the table is created from the statement, then filled
Created(cr, tbl, table_name, chunk_size) ==
    IF cr.exc # "" THEN [st |-> cr.st, exc |-> cr.exc]
    ELSE InsertChunks(chunk(tbl, chunk_size), table_name, cr.st)

CreateAndInsert(cs, table_name, chunk_size, st) ==
    Created(query_with_connection(cs.sql, st, 1, TRUE), cs.tbl, table_name, chunk_size)

\* the body of the connection scope once the precheck has ended as pre
Checked(pre, tbl, table_name, chunk_size) ==
    IF pre.exc # "" THEN [st |-> pre.st, exc |-> pre.exc]
    ELSE IF pre.ret
    THEN CreateAndInsert(create_statement(tbl, table_name), table_name, chunk_size, pre.st)
    ELSE InsertChunks(chunk(tbl, chunk_size), table_name, pre.st)

CopyBody(tbl, table_name, if_exists, chunk_size, st) ==
    Checked(create_table_precheck(st, table_name, if_exists), tbl, table_name, chunk_size)

copy(tbl, table_name, if_exists, chunk_size, w) ==
    IF num_rows(tbl) = 0
    THEN [w |-> w, exc |-> "", ret |-> NoneRet, found |-> FALSE]
    ELSE ScopeExit(CopyBody(tbl, table_name, if_exists, chunk_size,
                            Connect(w.file, w.log, w.spills, 1)),
                   1, NoneRet)

\* ------------------------------------------------------------------------
\* The calls a program makes on one SQLite object
\* ------------------------------------------------------------------------
SeqsUpTo(S, n) == UNION {[1..k -> S] : k \in 0..n}

Rows1 == {<<IntV("1")>>, <<StrV("a")>>}
Rows2 == {<<IntV("1"), StrV("a")>>, <<IntV("2"), NoneV>>}

\* the tables handed to copy: one column or two, up to MaxRows rows
InputTables ==
    {Tbl(<<"a">>, r) : r \in SeqsUpTo(Rows1, MaxRows)}
        \cup {Tbl(<<"a", "b">>, r) : r \in SeqsUpTo(Rows2, MaxRows)}

IfExistsValues == {"fail", "append", "drop", "truncate"}

ChunkSizes == {1, 2}

Lit(q, s) == [quoted |-> q, s |-> s]

\* the SQL handed to query and query_with_connection
Sqls ==
    {<<SelectAll(n)>> : n \in Names}
        \cup {<<SelectNone(n)>> : n \in Names}
        \cup {<<CreateTable("t", <<[name |-> "a", type |-> "int"]>>), Semi>>,
              <<DropTable("t")>>,
              <<InsertInto("t", <<"a">>, <<<<Lit(FALSE, "1")>>>>), Semi,
                InsertInto("t", <<"a">>, <<<<Lit(FALSE, "2")>>>>), Semi>>,
              <<InsertInto("t", <<"a">>, <<<<Lit(FALSE, "1")>>>>), Semi,
                InsertInto("t", <<"a">>, <<<<Lit(FALSE, "a")>>>>), Semi>>,
              <<InsertInto("t", <<"a">>, <<<<Lit(FALSE, "2")>>>>), Semi,
                SelectAll("t")>>,
              <<Blank, SelectAll("t"), Semi, Blank, Semi, Blank>>,
              <<Blank>>}

NoCall ==
    [op |-> "", tbl |-> Tbl(<<>>, <<>>), table_name |-> "", if_exists |-> "",
     chunk_size |-> 0, sql |-> <<>>, commit |-> FALSE, before |-> <<>>,
     exc |-> "", ret |-> NoneRet, found |-> FALSE, log |-> <<>>, spills |-> <<>>]

NewWorld == [file |-> file, log |-> <<>>, spills |-> <<>>]

\* no table of the database holds more than MaxTableRows rows
Bounded(db) == \A i \in 1..Len(db) : Len(db[i].rows) <= MaxTableRows

Called(call, r) ==
    /\ Bounded(r.w.file)
    /\ file' = r.w.file
    /\ pc' = "returned"
    /\ last' = [call EXCEPT !.before = file, !.exc = r.exc, !.ret = r.ret,
                            !.found = r.found,
                            !.log = r.w.log, !.spills = r.w.spills]

Init ==
    /\ file = <<>>
    /\ pc = "ready"
    /\ last = NoCall

\* db.query(sql)
Query ==
    /\ pc = "ready"
    /\ \E sql \in Sqls :
        Called([NoCall EXCEPT !.op = "query", !.sql = sql, !.commit = TRUE],
               query(sql, NewWorld, 1))

\* with db.connection() as connection:
\*     db.query_with_connection(sql, connection, commit=commit)
QueryWithConnection ==
    /\ pc = "ready"
    /\ \E sql \in Sqls, commit \in BOOLEAN :
        Called([NoCall EXCEPT !.op = "query_with_connection", !.sql = sql,
                              !.commit = commit],
               QueryExit(query_with_connection(sql, Connect(file, <<>>, <<>>, 1),
                                               1, commit), 1))

\* db.copy(tbl, table_name, if_exists, chunk_size)
Copy ==
    /\ pc = "ready"
    /\ \E tbl \in InputTables, table_name \in CopyNames,
          if_exists \in IfExistsValues, chunk_size \in ChunkSizes :
        Called([NoCall EXCEPT !.op = "copy", !.tbl = tbl,
                              !.table_name = table_name,
                              !.if_exists = if_exists,
                              !.chunk_size = chunk_size],
               copy(tbl, table_name, if_exists, chunk_size, NewWorld))

\* db.table_exists(table_name)
TableExists ==
    /\ pc = "ready"
    /\ \E table_name \in Names :
        Called([NoCall EXCEPT !.op = "table_exists", !.table_name = table_name],
               table_exists(table_name, NewWorld, 1))

\* the caller takes the outcome of the call; the SQLite object keeps
\* nothing of a call but the database file
Return ==
    /\ pc = "returned"
    /\ pc' = "ready"
    /\ last' = NoCall
    /\ UNCHANGED file

Next == Query \/ QueryWithConnection \/ Copy \/ TableExists \/ Return

Spec == Init /\ [][Next]_vars

\* ------------------------------------------------------------------------
\* Properties
\* ------------------------------------------------------------------------
RowsIn(db, n) == IF Find(db, n) = 0 THEN <<>> ELSE db[Find(db, n)].rows

ExistedBefore == Find(last.before, last.table_name) # 0

\* the events of the last call that satisfy a test, in order
Executed(op) ==
    Keep(last.log, [i \in 1..Len(last.log) |->
                        last.log[i].e = "execute" /\ last.log[i].op = op])

Failed(op) ==
    Keep(last.log, [i \in 1..Len(last.log) |->
                        last.log[i].e = "execute_failed" /\ last.log[i].op = op])

CountEv(e, c, upto) ==
    Cardinality({i \in 1..upto : last.log[i].e = e /\ last.log[i].c = c})

AnyFailed == \E i \in 1..Len(last.log) : last.log[i].e = "execute_failed"

Min(a, b) == IF a < b THEN a ELSE b

\* the i-th chunk of c rows of the table handed to copy
ChunkRows(i, c) ==
    SubSeq(last.tbl.rows, (i - 1) * c + 1, Min(i * c, Len(last.tbl.rows)))

\* C1: copy of a non-empty table onto an existing table (of the same
\* columns) holding rows R: "fail" raises the already-exists error and
\* leaves R; "drop" leaves exactly the rows of tbl; "append" leaves R
\* followed by the rows of tbl and issues no DROP or CREATE.
C1_ExistingTable ==
    (/\ last.op = "copy"
     /\ num_rows(last.tbl) > 0
     /\ ExistedBefore
     /\ ColumnNames(last.before[Find(last.before, last.table_name)]) = last.tbl.columns)
    =>
    /\ last.if_exists = "fail" =>
          /\ last.exc = AlreadyExists
          /\ RowsIn(file, last.table_name) = RowsIn(last.before, last.table_name)
    /\ last.if_exists = "drop" =>
          RowsIn(file, last.table_name) = last.tbl.rows
    /\ last.if_exists = "append" =>
          /\ RowsIn(file, last.table_name)
                = RowsIn(last.before, last.table_name) \o last.tbl.rows
          /\ Executed("drop") = <<>> /\ Executed("create") = <<>>
          /\ Failed("drop") = <<>> /\ Failed("create") = <<>>

\* C2: when a statement run by query or copy raises a database error, the
\* transaction is rolled back, the connection is closed and the error
\* reaches the caller.
C2_ErrorReachesCaller ==
    (last.op \in {"query", "copy"} /\ AnyFailed)
    =>
    /\ last.exc = "sqlite3.Error"
    /\ CountEv("rollback", 1, Len(last.log)) = 1
    /\ last.log[Len(last.log)].e = "close"

\* C3: a query whose result has zero rows returns None and writes no spill
\* file; a spill file holds the header and at least one row.
C3_ZeroRowsNone ==
    last.op \in {"query", "query_with_connection"}
    =>
    /\ ~last.ret.none => Len(last.ret.rows) >= 1
    /\ \A i \in 1..Len(last.spills) : Len(last.spills[i].rows) >= 1

\* C4: query_with_connection commits after each executed statement exactly
\* when commit is true; with commit false it issues no commit.
C4_CommitWhenAsked ==
    last.op = "query_with_connection"
    =>
    CountEv("commit", 1, Len(last.log))
        = IF last.commit THEN CountEv("execute", 1, Len(last.log)) ELSE 0

\* C5: table_exists(name) is true exactly when the catalogue holds a table
\* of that name, names matching case-insensitively: also for a name that
\* differs only in letter case from the stored name.
C5_TableExists ==
    last.op = "table_exists" => (last.found <=> ExistedBefore)

Returns(q, rows) == q.exc = "" /\ ~q.ret.none /\ q.ret.rows = rows

\* C7: copy of a non-empty table to a table that does not exist, then
\* query("SELECT * FROM t"), returns the rows of the table in order.
C7_RoundTrip ==
    (/\ last.op = "copy"
     /\ num_rows(last.tbl) > 0
     /\ last.if_exists = "fail"
     /\ ~ExistedBefore)
    =>
    Returns(query(<<SelectAll(last.table_name)>>, NewWorld, 1), last.tbl.rows)

\* C8: copy with chunk size c of n >= 1 rows executes exactly ceil(n/c)
\* INSERT statements in row order, each of c rows but the last, which
\* carries the rest.
C8_Chunks ==
    (/\ last.op = "copy"
     /\ num_rows(last.tbl) > 0
     /\ last.if_exists = "fail"
     /\ ~ExistedBefore)
    =>
    LET n == num_rows(last.tbl)
        c == last.chunk_size
        m == (n + c - 1) \div c
    IN  /\ Len(Executed("insert")) = m
        /\ \A i \in 1..Min(m, Len(Executed("insert"))) :
              Executed("insert")[i].values
                  = InsertValues(Tbl(last.tbl.columns, ChunkRows(i, c)))

\* C9: when a call has returned or raised, every connection and cursor it
\* opened is closed, and a connection is closed only after its cursors.
C9_AllClosed ==
    pc = "returned"
    =>
    \A c \in {1, 2} :
        /\ CountEv("connect", c, Len(last.log)) = CountEv("close", c, Len(last.log))
        /\ CountEv("cursor", c, Len(last.log)) = CountEv("close_cursor", c, Len(last.log))
        /\ \A i \in 1..Len(last.log) :
              (last.log[i].e = "close" /\ last.log[i].c = c)
              => CountEv("cursor", c, i) = CountEv("close_cursor", c, i)
        /\ \A i \in 1..Len(last.log) :
              (last.log[i].e \notin {"connect", "close"} /\ last.log[i].c = c)
              => CountEv("connect", c, i) = CountEv("close", c, i) + 1

\* a copy that raised the already-exists error after the nested lookup,
\* and a call that met a database error
C9_Witness ==
    /\ last.op = "copy"
    /\ last.exc = AlreadyExists
    /\ CountEv("close", 1, Len(last.log)) = 1
    /\ CountEv("close", 2, Len(last.log)) = 1
    /\ CountEv("close_cursor", 2, Len(last.log)) = 1

\* the values of the INSERT statements that were executed, in order
RECURSIVE ValuesOf(_)
ValuesOf(evs) ==
    IF evs = <<>> THEN <<>> ELSE Head(evs).values \o ValuesOf(Tail(evs))

\* C10: when the k-th INSERT of a copy raises a database error, the table
\* and the rows of chunks 1..k-1 stay in the database after the call, and
\* no later chunk is executed.
C10_NotAtomic ==
    (last.op = "copy" /\ Failed("insert") # <<>>)
    =>
    LET done == Executed("insert")
        c == last.chunk_size
        base == IF Executed("create") # <<>> THEN <<>>
                ELSE RowsIn(last.before, last.table_name)
        t == file[Find(file, last.table_name)]
    IN  /\ \A i, j \in 1..Len(last.log) :
              (last.log[i].e = "execute_failed" /\ j > i)
              => last.log[j].e \notin {"execute", "execute_failed", "commit"}
        /\ Len(Failed("insert")) = 1
        /\ Find(file, last.table_name) # 0
        /\ \A i \in 1..Len(done) :
              done[i].values = InsertValues(Tbl(last.tbl.columns, ChunkRows(i, c)))
        /\ t.rows = base \o [r \in 1..Len(ValuesOf(done)) |->
                                StoredRow(t, last.tbl.columns, ValuesOf(done)[r])]
        /\ Len(t.rows) = Len(base) + Len(done) * c

C10_Witness ==
    /\ last.op = "copy"
    /\ Failed("insert") # <<>>
    /\ Len(Executed("insert")) >= 1
    /\ Executed("create") # <<>>
    /\ ~ExistedBefore
    /\ Len(RowsIn(file, last.table_name)) >= 1

====
